---- MODULE Spec2Model ----
(***************************************************************************)
(* State-machine model of frappe.ui.Capture                                *)
(* (frappe/public/js/frappe/ui/capture.js): one Capture object, the camera *)
(* provider (navigator.mediaDevices.getUserMedia), the dialogs the object  *)
(* builds, and the user who clicks the dialogs' buttons.                   *)
(*                                                                         *)
(* Every render() that the provider grants builds a new stream and a new   *)
(* frappe.ui.Dialog; both get the same index k, so streams[k] is the       *)
(* stream shown by the <video> of dialogs[k].  The handlers bound to the   *)
(* buttons are closures: they change the buttons of this.dialog (the       *)
(* dialog the object references when the handler runs) and the template    *)
(* ($e, video) of the render() that created them (their owner).            *)
(***************************************************************************)
EXTENDS Integers, Sequences, FiniteSets, TLC

\* Bounds of the model: stream requests issued, frames captured.
MaxRequests == 2
MaxCaptures == 2

\* Bound on the stream requests in the specification that follows camera
\* switches only (SpecSwitch).
MaxSwitchRequests == 4

\* Bounds of the session-alive tracker: mousemove events, clock steps.
MaxMoves == 4
MaxTicks == 6

\* setTimeout('frappe.session_alive=false;', 30000), in milliseconds.
SessionAliveTimeout == 30000

\* The clock of the model advances in thirds of the timeout.
ClockStep == SessionAliveTimeout \div 3

FacingModes == {"environment", "user"}
NoCallback == "none"
Callbacks == {"fn"}

VARIABLES
    options,      \* this.options (only the error flag matters here)
    facing_mode,  \* this.facing_mode
    images,       \* this.images: sequence of data URLs (capture numbers)
    stream,       \* this.stream: index into streams, 0 = undefined
    dialog,       \* this.dialog: index into dialogs, 0 = undefined
    callback,     \* this.callback
    pending,      \* getUserMedia promises not yet settled
    streams,      \* every stream the provider granted to this object
    dialogs,      \* every dialog this object built
    requests,     \* number of getUserMedia calls issued
    captures,     \* number of frames captured by get_data_uri
    event,        \* the operation that produced the current state and what
                  \* it surfaced: alerts, notices, callback invocations
    path,         \* position in the call sequences of the spec's scenarios
    session_alive,          \* frappe.session_alive
    session_alive_timeout,  \* frappe.session_alive_timeout: timer id, 0 = undefined
    timers,       \* timeouts armed and neither fired nor cleared: [id, armed, due]
    timer_seq,    \* number of setTimeout calls (the last id handed out)
    now,          \* the clock, in milliseconds
    alive_event   \* the last step of the tracker and what it triggered

\* The variables of frappe.ui.Capture and of the session-alive tracker.
cvars == <<options, facing_mode, images, stream, dialog, callback, pending,
           streams, dialogs, requests, captures, event, path>>
avars == <<session_alive, session_alive_timeout, timers, timer_seq, now,
           alive_event>>
vars == <<cvars, avars>>

----------------------------------------------------------------------------
\* Pure helpers

\* Array.prototype.pop: removes the last element, no-op on an empty array.
pop(s) == IF Len(s) = 0 THEN s ELSE SubSeq(s, 1, Len(s) - 1)

\* this.facing_mode == "environment" ? "user" : "environment"
toggle_facing_mode(m) == IF m = "environment" THEN "user" ELSE "environment"

\* The data URL of the frame drawn by get_data_uri: the n-th captured frame.
get_data_uri(n) == n + 1

\* An operation that surfaced nothing and invoked nothing.
Ev(op, label, d) ==
    [op |-> op, label |-> label, d |-> d, handler |-> "",
     alerts |-> 0, notices |-> 0, calls |-> << >>]

\* The scenarios of the spec, followed from a freshly constructed object.
Advance(p, op, label) ==
    CASE op = "submit_fn" -> p
      [] p = "fresh" /\ op = "show" -> "requested"
      [] p = "requested" /\ op = "grant" -> "previewing"
      [] p = "requested" /\ op = "hide" -> "hidden"
      [] p = "hidden" /\ op = "grant" -> "granted_after_hide"
      [] p = "previewing" /\ op = "primary" /\ label = "Take Photo" -> "captured1"
      [] p = "captured1" /\ op = "primary" /\ label = "Submit" -> "submitted1"
      [] p = "captured1" /\ op = "multiple" -> "multi"
      [] p = "multi" /\ op = "primary" /\ label = "Take Photo" -> "captured2"
      [] p = "captured2" /\ op = "primary" /\ label = "Submit" -> "submitted2"
      [] OTHER -> "off"

----------------------------------------------------------------------------
\* frappe.ui.Dialog

\* Dialog.hide(): the modal is dismissed.
DialogHide(rec) == [rec EXCEPT !.shown = FALSE]

\* Dialog.show(): the modal is presented.
DialogShow(rec) == [rec EXCEPT !.shown = TRUE]

\* Dialog.set_primary_action(label, fn): the primary button shows label and
\* runs fn, in place of what it showed and ran before.
set_primary_action(rec, label, fn) ==
    [rec EXCEPT !.primary_label = label, !.primary_action = fn]

\* Dialog.set_secondary_action(fn): the secondary button runs fn, in place
\* of what it ran before; its label stays.
set_secondary_action(rec, fn) == [rec EXCEPT !.secondary_action = fn]

\* Dialog.set_secondary_action_label(label)
set_secondary_action_label(rec, label) == [rec EXCEPT !.secondary_label = label]

\* Dialog.add_custom_action(label, fn, "btn-multiple"): the button is
\* visible once added; its handler is that of the render that added it.
add_custom_action(rec) == [rec EXCEPT !.multiple_visible = TRUE]

\* The dialog as its constructor leaves it: not presented, no actions.
NewDialog(k) ==
    [shown |-> FALSE,
     primary_label |-> "", primary_action |-> [kind |-> "none", owner |-> k],
     secondary_label |-> "", secondary_action |-> [kind |-> "none", owner |-> k],
     multiple_visible |-> FALSE, display |-> "stream"]

\* The modal that receives the user's clicks: presented, and no dialog
\* created later is presented on top of it.
Topmost(d) ==
    /\ d \in 1..Len(dialogs)
    /\ dialogs[d].shown
    /\ \A e \in (d + 1)..Len(dialogs) : ~dialogs[e].shown

----------------------------------------------------------------------------
\* Methods of frappe.ui.Capture

\* stop_media_stream(): stops every track of this.stream, if there is one.
stop_media_stream(ss) ==
    IF stream # 0 THEN [ss EXCEPT ![stream].live = FALSE] ELSE ss

\* on_hide of the dialog built by render(): () => this.stop_media_stream()
on_hide(ss) == stop_media_stream(ss)

\* hide(), dialogs: if (this.dialog) this.dialog.hide()
hide_dialogs(ds) ==
    IF dialog # 0 THEN [ds EXCEPT ![dialog] = DialogHide(@)] ELSE ds

\* hide(), streams: the dialog's on_hide, then this.stop_media_stream()
hide_streams(ss) ==
    stop_media_stream(IF dialog # 0 /\ dialogs[dialog].shown THEN on_hide(ss) ELSE ss)

\* Requests in flight when hide() runs are not cancelled; the model only
\* remembers that hide() ran while they were in flight.
hide_pending(ps) == [i \in DOMAIN ps |-> [ps[i] EXCEPT !.hidden = TRUE]]

\* render(): constraints = {video: {facingMode: this.facing_mode}} and the
\* getUserMedia call; the promise is pending until the provider answers.
\* The request remembers what the object held when it was issued (images,
\* whether this.dialog was presented and this.stream live); hidden is set
\* by hide_pending.
render_request(ps, mode, imgs, ds, ss) ==
    Append(ps, [facingMode |-> mode, images |-> imgs, hidden |-> FALSE,
                presented |-> (dialog # 0 /\ ds[dialog].shown),
                live |-> (stream # 0 /\ ss[stream].live)])

\* set_take_photo_action() of render k, applied to the dialog rec.
set_take_photo_action(k, rec) ==
    set_secondary_action(
        set_secondary_action_label(
            set_primary_action(rec, "Take Photo", [kind |-> "take_photo", owner |-> k]),
            "Switch Camera"),
        [kind |-> "switch_camera", owner |-> k])

\* this.dialog.get_primary_btn().off('click')
primary_off_click(rec) == [rec EXCEPT !.primary_action.kind = "none"]

\* this.dialog.custom_actions.find(".btn-multiple").show() / .hide()
btn_multiple_show(rec) == [rec EXCEPT !.multiple_visible = TRUE]
btn_multiple_hide(rec) == [rec EXCEPT !.multiple_visible = FALSE]

\* $e.find('.fc-stream') / $e.find('.fc-preview') show and hide: what the
\* template of render k displays.
set_display(ds, k, what) == [ds EXCEPT ![k].display = what]

\* The dialog as render k leaves it: set_take_photo_action(), then the
\* secondary action is set again (to the retake handler), the custom action
\* Take Multiple is added and hidden, the template shows the live stream.
render_dialog(k) ==
    btn_multiple_hide(
        add_custom_action(
            set_secondary_action(set_take_photo_action(k, NewDialog(k)),
                                 [kind |-> "retake", owner |-> k])))

\* Variant of take_photo: the Take Multiple button is not shown.
take_photo_without_multiple(k, ds) ==
    [set_display(ds, k, "preview") EXCEPT ![dialog] =
        set_primary_action(
            set_secondary_action_label(@, "Retake"),
            "Submit", [kind |-> "submit", owner |-> k])]

\* The Take Photo handler of render k, on the dialogs: the template shows
\* the captured frame; this.dialog gets the label Retake, the Take Multiple
\* button and the primary action Submit.
take_photo(k, ds) ==
    [set_display(ds, k, "preview") EXCEPT ![dialog] =
        set_primary_action(
            btn_multiple_show(set_secondary_action_label(@, "Retake")),
            "Submit", [kind |-> "submit", owner |-> k])]

\* The retake handler of render k, on the dialogs: the template shows the
\* stream again and set_take_photo_action() rebinds this.dialog.
retake(k, ds) ==
    [set_display(ds, k, "stream") EXCEPT ![dialog] =
        set_take_photo_action(k, primary_off_click(@))]

\* Variant of show_then: a request that hide() overtook presents nothing.
show_then_cancelled(rec, req) == IF req.hidden THEN rec ELSE DialogShow(rec)

\* show(): .then(() => this.dialog.show()) for the request req.
show_then(rec, req) == DialogShow(rec)

\* Variant of take_multiple: the primary action is not bound again.
take_multiple_unbound(k, ds) ==
    [set_display(ds, k, "stream") EXCEPT ![dialog] =
        btn_multiple_hide(primary_off_click(@))]

\* The Take Multiple handler of render k: the template shows the stream
\* again, the button hides, set_take_photo_action() rebinds this.dialog.
take_multiple(k, ds) ==
    [set_display(ds, k, "stream") EXCEPT ![dialog] =
        set_take_photo_action(k, btn_multiple_hide(primary_off_click(@)))]

\* Variant of invoke_callback: only the latest data URL is passed.
invoke_callback_latest(cb, imgs, ds, ss) ==
    IF cb # NoCallback
    THEN <<[fn |-> cb,
            args |-> IF Len(imgs) = 0 THEN imgs ELSE <<imgs[Len(imgs)]>>,
            presented |-> (dialog # 0 /\ ds[dialog].shown),
            live |-> (stream # 0 /\ ss[stream].live)]>>
    ELSE << >>

\* Submit handler: if (this.callback) this.callback(this.images), which runs
\* after this.hide(); ds and ss are the dialogs and streams at that moment.
invoke_callback(cb, imgs, ds, ss) ==
    IF cb # NoCallback
    THEN <<[fn |-> cb, args |-> imgs,
            presented |-> (dialog # 0 /\ ds[dialog].shown),
            live |-> (stream # 0 /\ ss[stream].live)]>>
    ELSE << >>

\* The promises still pending once the i-th one is settled.
settle(ps, i) ==
    [j \in 1..(Len(ps) - 1) |-> IF j < i THEN ps[j] ELSE ps[j + 1]]

\* Variant of show_catch: the rejected request is issued again.
show_catch_retry(ps, i) == Append(settle(ps, i), ps[i])

\* show(): .catch(err => {...; throw err}) leaves the other requests alone
\* and issues none.
show_catch(ps, i) == settle(ps, i)

\* Variant of submit_calls: the callback runs before this.hide().
submit_calls_before_hide(cb, imgs, ds, ss) == invoke_callback(cb, imgs, ds, ss)

\* The Submit handler: this.hide() first, then the callback, which sees the
\* dialogs and streams as hide() left them.
submit_calls(cb, imgs, ds, ss) ==
    invoke_callback(cb, imgs, hide_dialogs(ds), hide_streams(ss))

----------------------------------------------------------------------------
Init ==
    /\ options \in [error : BOOLEAN]
    /\ facing_mode = "environment"
    /\ images = << >>
    /\ stream = 0
    /\ dialog = 0
    /\ callback = NoCallback
    /\ pending = << >>
    /\ streams = << >>
    /\ dialogs = << >>
    /\ requests = 0
    /\ captures = 0
    /\ event = Ev("new", "", 0)
    /\ path = "fresh"
    /\ session_alive = TRUE
    /\ session_alive_timeout = 0
    /\ timers = {}
    /\ timer_seq = 0
    /\ now = 0
    /\ alive_event = [op |-> "load", id |-> 0, triggered |-> 0]

\* submit(fn): registers the callback.
submit ==
    /\ \E fn \in Callbacks : callback' = fn
    /\ event' = Ev("submit_fn", "", 0)
    /\ path' = Advance(path, "submit_fn", "")
    /\ UNCHANGED <<options, facing_mode, images, stream, dialog, pending,
                   streams, dialogs, requests, captures>>
    /\ UNCHANGED avars

\* show(): render() issues one stream request (at most n in all).
ShowWithin(n) ==
    /\ requests < n
    /\ pending' = render_request(pending, facing_mode, images, dialogs, streams)
    /\ requests' = requests + 1
    /\ event' = Ev("show", "", 0)
    /\ path' = Advance(path, "show", "")
    /\ UNCHANGED <<options, facing_mode, images, stream, dialog, callback,
                   streams, dialogs, captures>>
    /\ UNCHANGED avars

show == ShowWithin(MaxRequests)

\* hide()
hide ==
    /\ dialogs' = hide_dialogs(dialogs)
    /\ streams' = hide_streams(streams)
    /\ pending' = hide_pending(pending)
    /\ event' = Ev("hide", "", 0)
    /\ path' = Advance(path, "hide", "")
    /\ UNCHANGED <<options, facing_mode, images, stream, dialog, callback,
                   requests, captures>>
    /\ UNCHANGED avars

\* The provider resolves the i-th pending request: the .then of render()
\* followed by the .then of show().
Grant(i) ==
    /\ i \in 1..Len(pending)
    /\ LET k == Len(streams) + 1 IN
        /\ streams' = Append(streams, [live |-> TRUE, facingMode |-> pending[i].facingMode])
        /\ stream' = k
        /\ dialog' = k
        /\ dialogs' = Append(dialogs, show_then(render_dialog(k), pending[i]))
        /\ event' = Ev("grant", IF pending[i].hidden THEN "hidden" ELSE "", k)
    /\ pending' = settle(pending, i)
    /\ path' = Advance(path, "grant", "")
    /\ UNCHANGED <<options, facing_mode, images, callback, requests,
                   captures>>
    /\ UNCHANGED avars

\* The provider rejects the i-th pending request: the .catch of show().
Reject(i) ==
    /\ i \in 1..Len(pending)
    /\ pending' = show_catch(pending, i)
    /\ event' = [Ev("reject", "", 0) EXCEPT !.alerts = IF options.error THEN 1 ELSE 0]
    /\ path' = Advance(path, "reject", "")
    /\ UNCHANGED <<options, facing_mode, images, stream, dialog, callback,
                   streams, dialogs, requests, captures>>
    /\ UNCHANGED avars

\* Click on the primary button of dialog d while the Take Photo handler is
\* bound to it.
TakePhotoHandler(d) ==
    /\ Topmost(d)
    /\ dialogs[d].primary_action.kind = "take_photo"
    /\ captures < MaxCaptures
    /\ LET k == dialogs[d].primary_action.owner IN
        /\ images' = Append(images, get_data_uri(captures))
        /\ captures' = captures + 1
        /\ dialogs' = take_photo(k, dialogs)
    /\ event' = [Ev("primary", dialogs[d].primary_label, d)
                 EXCEPT !.handler = "take_photo"]
    /\ path' = Advance(path, "primary", dialogs[d].primary_label)
    /\ UNCHANGED <<options, facing_mode, stream, dialog, callback, pending,
                   streams, requests>>
    /\ UNCHANGED avars

\* Click on the primary button of dialog d while the Submit handler is bound
\* to it: this.hide(), then the callback.
SubmitHandler(d) ==
    /\ Topmost(d)
    /\ dialogs[d].primary_action.kind = "submit"
    /\ dialogs' = hide_dialogs(dialogs)
    /\ streams' = hide_streams(streams)
    /\ pending' = hide_pending(pending)
    /\ event' = [Ev("primary", dialogs[d].primary_label, d)
                 EXCEPT !.handler = "submit",
                        !.calls = submit_calls(callback, images, dialogs, streams)]
    /\ path' = Advance(path, "primary", dialogs[d].primary_label)
    /\ UNCHANGED <<options, facing_mode, images, stream, dialog, callback,
                   requests, captures>>
    /\ UNCHANGED avars

\* Click on the secondary button of dialog d while the retake handler
\* (render, lines 112-119) is bound to it.
RetakeHandler(d) ==
    /\ Topmost(d)
    /\ dialogs[d].secondary_action.kind = "retake"
    /\ LET k == dialogs[d].secondary_action.owner IN
        /\ images' = pop(images)
        /\ dialogs' = retake(k, dialogs)
    /\ event' = [Ev("secondary", dialogs[d].secondary_label, d)
                 EXCEPT !.handler = "retake"]
    /\ path' = Advance(path, "secondary", dialogs[d].secondary_label)
    /\ UNCHANGED <<options, facing_mode, stream, dialog, callback, pending,
                   streams, requests, captures>>
    /\ UNCHANGED avars

\* Click on the secondary button of dialog d while the camera-switch handler
\* (set_take_photo_action, lines 100-107) is bound to it.
SwitchCameraWithin(d, n) ==
    /\ Topmost(d)
    /\ dialogs[d].secondary_action.kind = "switch_camera"
    /\ requests < n
    /\ facing_mode' = toggle_facing_mode(facing_mode)
    /\ dialogs' = hide_dialogs(dialogs)
    /\ streams' = hide_streams(streams)
    /\ pending' = render_request(hide_pending(pending), facing_mode', images,
                                 dialogs', streams')
    /\ requests' = requests + 1
    /\ event' = [Ev("secondary", dialogs[d].secondary_label, d)
                 EXCEPT !.handler = "switch_camera", !.notices = 1]
    /\ path' = Advance(path, "secondary", dialogs[d].secondary_label)
    /\ UNCHANGED <<options, images, stream, dialog, callback, captures>>
    /\ UNCHANGED avars

SwitchCameraHandler(d) == SwitchCameraWithin(d, MaxRequests)

\* Click on the custom action Take Multiple of dialog d.
TakeMultipleHandler(d) ==
    /\ Topmost(d)
    /\ dialogs[d].multiple_visible
    /\ dialogs' = take_multiple(d, dialogs)
    /\ event' = [Ev("multiple", "Take Multiple", d) EXCEPT !.handler = "take_multiple"]
    /\ path' = Advance(path, "multiple", "Take Multiple")
    /\ UNCHANGED <<options, facing_mode, images, stream, dialog, callback,
                   pending, streams, requests, captures>>
    /\ UNCHANGED avars

\* Click on the close button of dialog d: the modal dismisses itself and the
\* click handler bound by render() calls this.hide().
CloseHandler(d) ==
    /\ Topmost(d)
    /\ dialogs' = hide_dialogs([dialogs EXCEPT ![d] = DialogHide(@)])
    /\ streams' = stop_media_stream(on_hide(streams))
    /\ pending' = hide_pending(pending)
    /\ event' = Ev("close", "", d)
    /\ path' = Advance(path, "close", "")
    /\ UNCHANGED <<options, facing_mode, images, stream, dialog, callback,
                   requests, captures>>
    /\ UNCHANGED avars

\* The user dismisses dialog d (Escape, click on the backdrop): the dialog
\* hides and calls its on_hide.
Dismiss(d) ==
    /\ Topmost(d)
    /\ dialogs' = [dialogs EXCEPT ![d] = DialogHide(@)]
    /\ streams' = on_hide(streams)
    /\ event' = Ev("dismiss", "", d)
    /\ path' = Advance(path, "dismiss", "")
    /\ UNCHANGED <<options, facing_mode, images, stream, dialog, callback,
                   pending, requests, captures>>
    /\ UNCHANGED avars

Next ==
    \/ submit
    \/ show
    \/ hide
    \/ \E i \in 1..MaxRequests : Grant(i)
    \/ \E i \in 1..MaxRequests : Reject(i)
    \/ \E d \in 1..MaxRequests : TakePhotoHandler(d)
    \/ \E d \in 1..MaxRequests : SubmitHandler(d)
    \/ \E d \in 1..MaxRequests : RetakeHandler(d)
    \/ \E d \in 1..MaxRequests : SwitchCameraHandler(d)
    \/ \E d \in 1..MaxRequests : TakeMultipleHandler(d)
    \/ \E d \in 1..MaxRequests : CloseHandler(d)
    \/ \E d \in 1..MaxRequests : Dismiss(d)

Spec == Init /\ [][Next]_vars

----------------------------------------------------------------------------
\* frappe.session_alive (misc/user.js)

\* clearTimeout(id): the timeout, if still armed, will not fire.
clearTimeout(ts, id) == {t \in ts : t.id # id}

\* Variant of cancel_armed: the previous timeout is left armed.
cancel_armed_never(ts, handle) == ts

\* if (frappe.session_alive_timeout) clearTimeout(frappe.session_alive_timeout)
cancel_armed(ts, handle) == IF handle # 0 THEN clearTimeout(ts, handle) ELSE ts

\* setTimeout(code, SessionAliveTimeout) called at time t, returning id.
setTimeout(ts, id, t) ==
    ts \cup {[id |-> id, armed |-> t, due |-> t + SessionAliveTimeout]}

\* The mousemove handler bound to document.
MouseMove ==
    /\ timer_seq < MaxMoves
    /\ alive_event' = [op |-> "mousemove", id |-> timer_seq + 1,
                       triggered |-> IF session_alive = FALSE THEN 1 ELSE 0]
    /\ session_alive' = TRUE
    /\ timers' = setTimeout(cancel_armed(timers, session_alive_timeout),
                            timer_seq + 1, now)
    /\ session_alive_timeout' = timer_seq + 1
    /\ timer_seq' = timer_seq + 1
    /\ UNCHANGED now
    /\ UNCHANGED cvars

\* An armed timeout that is due fires: 'frappe.session_alive=false;' runs.
TimeoutFires ==
    /\ \E t \in timers :
          /\ now >= t.due
          /\ timers' = timers \ {t}
          /\ alive_event' = [op |-> "timeout", id |-> t.id, triggered |-> 0]
    /\ session_alive' = FALSE
    /\ UNCHANGED <<session_alive_timeout, timer_seq, now>>
    /\ UNCHANGED cvars

\* Time passes.
Tick ==
    /\ now < MaxTicks * ClockStep
    /\ now' = now + ClockStep
    /\ alive_event' = [op |-> "tick", id |-> 0, triggered |-> 0]
    /\ UNCHANGED <<session_alive, session_alive_timeout, timers, timer_seq>>
    /\ UNCHANGED cvars

NextAlive ==
    \/ MouseMove
    \/ TimeoutFires
    \/ Tick

SpecAlive == Init /\ [][NextAlive]_vars

\* The same object when no photo is taken: more requests fit in the bound,
\* so longer chains of show() and camera switches are explored.
NextSwitch ==
    \/ ShowWithin(MaxSwitchRequests)
    \/ hide
    \/ \E i \in 1..MaxSwitchRequests : Grant(i)
    \/ \E i \in 1..MaxSwitchRequests : Reject(i)
    \/ \E d \in 1..MaxSwitchRequests : RetakeHandler(d)
    \/ \E d \in 1..MaxSwitchRequests : SwitchCameraWithin(d, MaxSwitchRequests)
    \/ \E d \in 1..MaxSwitchRequests : CloseHandler(d)
    \/ \E d \in 1..MaxSwitchRequests : Dismiss(d)

SpecSwitch == Init /\ [][NextSwitch]_vars

----------------------------------------------------------------------------
\* The states of the session, read off this.dialog, this.stream and the
\* pending requests.

Presented == dialog # 0 /\ dialogs[dialog].shown
Requesting == Len(pending) > 0
Previewing == Presented /\ dialogs[dialog].display = "stream"
Captured == Presented /\ dialogs[dialog].display = "preview"
Idle == ~Presented /\ ~Requesting
LiveStreams == {k \in 1..Len(streams) : streams[k].live}

TypeOK ==
    /\ facing_mode \in FacingModes
    /\ stream \in 0..Len(streams)
    /\ dialog \in 0..Len(dialogs)
    /\ Len(streams) = Len(dialogs)
    /\ requests \in 0..MaxRequests
    /\ captures \in 0..MaxCaptures

----------------------------------------------------------------------------
\* Claims

IsAscending(s) == \A i \in 1..(Len(s) - 1) : s[i] < s[i + 1]

PrimaryClick(label) == event'.op = "primary" /\ event'.label = label
SecondaryClick(label) == event'.op = "secondary" /\ event'.label = label

\* C1: every click on the primary button labelled Submit invokes the
\* registered callback exactly once with the whole images sequence, which is
\* in capture order; no other step invokes the callback; on a fresh object
\* show, grant, Take Photo, Submit invokes it once with [img1].
C1_SubmitDeliversOnce ==
    [][/\ IF PrimaryClick("Submit") /\ callback # NoCallback
          THEN /\ Len(event'.calls) = 1
               /\ event'.calls[1].fn = callback
               /\ event'.calls[1].args = images
               /\ images' = images
          ELSE event'.calls = << >>
       /\ IsAscending(images')
       /\ (path' = "submitted1" /\ PrimaryClick("Submit") /\ callback # NoCallback)
            => (Len(event'.calls) = 1
                /\ event'.calls[1].args = <<get_data_uri(0)>>)
      ]_vars

C1_Witness ==
    /\ path = "submitted1"
    /\ Len(event.calls) = 1
    /\ event.calls[1].args = <<1>>

\* C2: Take Multiple clicked in Captured leaves images unchanged and returns
\* to Previewing with Take Photo bound to the primary button; every Take
\* Photo appends one image; show, grant, Take Photo, Take Multiple, Take
\* Photo, Submit invokes the callback with [img1, img2].
C2_MultiCaptureAccumulates ==
    [][/\ (event'.op = "multiple" /\ event'.d = dialog /\ Captured)
            => /\ images' = images
               /\ Previewing'
               /\ dialogs'[dialog'].primary_label = "Take Photo"
               /\ dialogs'[dialog'].primary_action.kind = "take_photo"
       /\ PrimaryClick("Take Photo")
            => /\ Len(images') = Len(images) + 1
               /\ SubSeq(images', 1, Len(images)) = images
       /\ (path' = "submitted2" /\ PrimaryClick("Submit") /\ callback # NoCallback)
            => (Len(event'.calls) = 1
                /\ event'.calls[1].args = <<get_data_uri(0), get_data_uri(1)>>)
      ]_vars

C2_Witness ==
    /\ path = "submitted2"
    /\ Len(event.calls) = 1
    /\ event.calls[1].args = <<1, 2>>

\* C3: whenever the session is Captured, a click on the secondary button
\* labelled Retake removes exactly the last image, returns to Previewing
\* with primary action Take Photo and leaves facing_mode and the stream
\* unchanged.
C3_RetakeUndoesLastCapture ==
    [][(Captured /\ SecondaryClick("Retake") /\ event'.d = dialog)
         => /\ Len(images) > 0
            /\ images' = pop(images)
            /\ Previewing'
            /\ dialogs'[dialog'].primary_label = "Take Photo"
            /\ facing_mode' = facing_mode
            /\ stream' = stream
            /\ streams' = streams
      ]_vars

\* C4: in every step images is extended by one element (a Take Photo),
\* loses its last element (a Retake clicked in Captured) or is unchanged.
C4_ImagesChangeOnlyByCaptureAndRetake ==
    [][\/ /\ PrimaryClick("Take Photo")
          /\ Len(images') = Len(images) + 1
          /\ SubSeq(images', 1, Len(images)) = images
       \/ /\ SecondaryClick("Retake")
          /\ Captured
          /\ Len(images) > 0
          /\ images' = pop(images)
       \/ images' = images
      ]_vars

\* C5: every click in Previewing on the secondary button labelled Switch
\* Camera flips facing_mode, and no other step changes facing_mode.
C5_SwitchCameraAlwaysToggles ==
    [][IF Previewing /\ SecondaryClick("Switch Camera") /\ event'.d = dialog
       THEN facing_mode' = toggle_facing_mode(facing_mode)
       ELSE facing_mode' = facing_mode
      ]_vars

\* C6: at most one stream of the session has un-stopped tracks, and it is
\* the one this.stream references.
C6_AtMostOneLiveStream ==
    /\ Cardinality(LiveStreams) <= 1
    /\ LiveStreams \subseteq {stream}

\* C7: after hide() no stream of the session is live and the dialog is not
\* presented; hide() without stream and dialog, and a second consecutive
\* hide(), change nothing.
C7_HideReleases ==
    [][event'.op = "hide"
         => /\ LiveStreams' = {}
            /\ ~Presented'
            /\ (stream = 0 /\ dialog = 0) => (streams' = streams /\ dialogs' = dialogs)
            /\ event.op = "hide" => (streams' = streams /\ dialogs' = dialogs)
      ]_vars

\* C8: when the provider rejects a request, one alert is surfaced if
\* options.error and none otherwise, no dialog is presented and no stream is
\* live, images and facing_mode are as when the request was issued, and the
\* callback is not invoked.
C8_FailedAcquisition ==
    [][event'.op = "reject"
         => /\ event'.alerts = (IF options.error THEN 1 ELSE 0)
            /\ ~Presented'
            /\ LiveStreams' = {}
            /\ \E i \in 1..Len(pending) :
                  /\ images' = pending[i].images
                  /\ facing_mode' = pending[i].facingMode
            /\ event'.calls = << >>
      ]_vars

\* C9: whenever the dialog is not presented and no request is in flight, no
\* stream of the session is live.
C9_StreamReleasedOnEveryExit ==
    (~Presented /\ ~Requesting) => LiveStreams = {}

\* C10: a request that hide() overtook is granted like any other: the
\* stream is stored and live, the dialog is built and presented, and the
\* session is Previewing.
C10_HideDoesNotCancelRequest ==
    [][(event'.op = "grant" /\ event'.label = "hidden")
         => /\ stream' = Len(streams) + 1
            /\ streams'[stream'].live
            /\ dialog' = Len(dialogs) + 1
            /\ Previewing'
            /\ dialogs'[dialog'].primary_label = "Take Photo"
      ]_vars

C10_Witness ==
    /\ event.op = "grant"
    /\ event.label = "hidden"
    /\ path = "granted_after_hide"
    /\ Previewing
    /\ streams[stream].live

\* C11 (as claimed): when the callback runs on Submit the dialog is still
\* presented and the stream is still live.
C11_CallbackBeforeHide ==
    [][(PrimaryClick("Submit") /\ callback # NoCallback /\ Captured)
         => /\ Len(event'.calls) = 1
            /\ event'.calls[1].presented
            /\ event'.calls[1].live
      ]_vars

\* C11 (amended): on Submit the session is hidden first and the callback is
\* invoked afterwards with the images sequence: when the callback runs the
\* dialog is no longer presented and the tracks of this.stream are stopped.
C11_HideBeforeCallback ==
    [][(PrimaryClick("Submit") /\ callback # NoCallback)
         => /\ Len(event'.calls) = 1
            /\ event'.calls[1].args = images
            /\ ~event'.calls[1].presented
            /\ ~event'.calls[1].live
            /\ ~Presented'
            /\ stream \notin LiveStreams'
      ]_vars

C11_Witness ==
    /\ event.op = "primary"
    /\ event.label = "Submit"
    /\ event.d = dialog
    /\ Len(event.calls) = 1
    /\ ~event.calls[1].presented
    /\ ~event.calls[1].live
    /\ dialogs[dialog].display = "preview"

\* C12: when the Switch Camera handler runs, this.stream is stopped and
\* this.dialog hidden before the new request is issued, exactly one request
\* is issued, it carries the toggled facing mode, which is the opposite of
\* the mode of the stream just released, and one notice is surfaced.
C12_SwitchReleasesBeforeAcquire ==
    [][event'.handler = "switch_camera"
         => /\ Len(pending') = Len(pending) + 1
            /\ requests' = requests + 1
            /\ ~pending'[Len(pending')].presented
            /\ ~pending'[Len(pending')].live
            /\ LiveStreams' \subseteq LiveStreams \ {stream}
            /\ ~Presented'
            /\ facing_mode' = toggle_facing_mode(facing_mode)
            /\ pending'[Len(pending')].facingMode = facing_mode'
            /\ pending'[Len(pending')].facingMode
                  = toggle_facing_mode(streams[stream].facingMode)
            /\ event'.notices = 1
      ]_vars

\* C13: whenever the dialog is presented the label of each button agrees
\* with the handler bound to it: Take Photo / Switch Camera with the capture
\* and camera-switch handlers in Previewing, Submit / Retake with the submit
\* and retake handlers in Captured.
C13_LabelsAgreeWithHandlers ==
    Presented =>
        /\ Previewing =>
              /\ dialogs[dialog].primary_label = "Take Photo"
              /\ dialogs[dialog].primary_action.kind = "take_photo"
              /\ dialogs[dialog].secondary_label = "Switch Camera"
              /\ dialogs[dialog].secondary_action.kind = "switch_camera"
        /\ Captured =>
              /\ dialogs[dialog].primary_label = "Submit"
              /\ dialogs[dialog].primary_action.kind = "submit"
              /\ dialogs[dialog].secondary_label = "Retake"
              /\ dialogs[dialog].secondary_action.kind = "retake"

\* C14: Take Photo clicked in Previewing appends exactly one image (the
\* current frame), displays the captured frame, moves the session to
\* Captured where Retake, Submit and Take Multiple are offered, keeps the
\* held stream live and facing_mode unchanged.
C14_TakePhotoStep ==
    [][(Previewing /\ PrimaryClick("Take Photo") /\ event'.d = dialog)
         => /\ images' = Append(images, get_data_uri(captures))
            /\ Captured'
            /\ dialogs'[dialog'].secondary_label = "Retake"
            /\ dialogs'[dialog'].primary_label = "Submit"
            /\ dialogs'[dialog'].multiple_visible
            /\ stream' = stream
            /\ streams' = streams
            /\ streams'[stream'].live
            /\ facing_mode' = facing_mode
      ]_vars

C14_Witness ==
    /\ event.op = "primary"
    /\ event.label = "Take Photo"
    /\ event.d = dialog
    /\ Captured
    /\ Len(images) = 2
    /\ dialogs[dialog].multiple_visible
    /\ streams[stream].live

\* C15: every call of show() (by the caller or by the Switch Camera handler)
\* issues exactly one request, carrying the facing_mode of that moment; a
\* rejection issues none, and no other step issues one.
C15_NoAutomaticRetry ==
    [][/\ (event'.op = "show" \/ event'.handler = "switch_camera")
            => /\ requests' = requests + 1
               /\ Len(pending') = Len(pending) + 1
               /\ SubSeq(pending', 1, Len(pending)) = hide_pending(pending)
                    \/ SubSeq(pending', 1, Len(pending)) = pending
               /\ pending'[Len(pending')].facingMode = facing_mode'
       /\ event'.op = "show" => facing_mode' = facing_mode
       /\ event'.op = "reject"
            => /\ requests' = requests
               /\ Len(pending') = Len(pending) - 1
       /\ ~(event'.op = "show" \/ event'.handler = "switch_camera")
            => /\ requests' = requests
               /\ Len(pending') <= Len(pending)
      ]_vars

C15_Witness ==
    /\ event.op = "reject"
    /\ requests = 1
    /\ pending = << >>
    /\ ~Presented

\* C16: the Take Multiple button is visible exactly while the captured
\* frame is displayed (Captured) and hidden while the stream is displayed
\* (Previewing).
C16_TakeMultipleOnlyInCaptured ==
    Presented => (dialogs[dialog].multiple_visible <=> Captured)

\* C17: frappe.session_alive starts true; it becomes false only when the
\* timeout armed by the most recent mousemove fires, 30 seconds or more
\* after that mousemove; every mousemove cancels the timeout armed before,
\* so at most one is pending; a mousemove triggers 'session_alive' exactly
\* when it finds frappe.session_alive false, and leaves it true.
C17_SessionAliveTracker ==
    /\ session_alive = TRUE
    /\ [][/\ (session_alive /\ ~session_alive')
               => /\ alive_event'.op = "timeout"
                  /\ alive_event'.id = session_alive_timeout
                  /\ alive_event'.id = timer_seq
                  /\ \E t \in timers :
                        /\ t.id = alive_event'.id
                        /\ now >= t.armed + SessionAliveTimeout
          /\ Cardinality(timers') <= 1
          /\ alive_event'.op = "mousemove"
               => /\ alive_event'.triggered
                       = (IF session_alive = FALSE THEN 1 ELSE 0)
                  /\ session_alive' = TRUE
                  /\ timers' = {[id |-> session_alive_timeout', armed |-> now,
                                 due |-> now + SessionAliveTimeout]}
          /\ alive_event'.op # "mousemove" => alive_event'.triggered = 0
         ]_vars

C17_Witness ==
    /\ alive_event.op = "mousemove"
    /\ alive_event.triggered = 1
    /\ session_alive = TRUE
    /\ timer_seq = 2
    /\ Cardinality(timers) = 1

====
